---------------------------- MODULE Spec2Model ----------------------------
(***************************************************************************)
(* A model of debtk's CSV readers.                                         *)
(*                                                                         *)
(*   src/src/csv/easy.rs    fast_stream_valid_csv and                      *)
(*                          fast_stream_csv_with_unescaped_delimiters      *)
(*   src/src/csv/medium.rs  CharacterClass, ColumnComplexity, Solution     *)
(*                                                                         *)
(* Characters and bytes: easy.rs works on chars, modelled as one-character *)
(* strings; medium.rs works on u8, modelled as the numbers 0..255.         *)
(* Each part of the program has its own specification over its own         *)
(* variables; the variables of the other parts stay at their idle values.  *)
(***************************************************************************)
EXTENDS Integers, Sequences, FiniteSets, TLC

VARIABLES
    \* ---- easy.rs: one call of fast_stream_csv_with_unescaped_delimiters
    reader,                 \* what lines() yields: per line its chars or an I/O error
    invalid_column_index,   \* argument
    expected_column_count,  \* argument
    line,                   \* the enumerate() counter: lines consumed so far
    out,                    \* the items the iterator has yielded, in order
    done,                   \* next() has returned None
    \* ---- easy.rs: one line through fast_stream_valid_csv
    fields,                 \* a row of fields to write out and read back
    text,                   \* the line handed to the tokenizer
    tokens,                 \* the row the tokenizer returned
    \* ---- medium.rs: CharacterClass::from_byte
    byte,                   \* the u8 to classify
    class,                  \* the CharacterClass returned
    \* ---- medium.rs: one ColumnComplexity
    class_counts,           \* the field class_counts: [usize; 9], indexed 0..8
    outstanding,            \* the byte spans added and not removed (span -> how many)
    last_op,                \* the last call on the column
    \* ---- medium.rs: Solution::new
    raw,                    \* argument: the buffer, a sequence of u8
    delimiter_byte,         \* argument: the configured delimiter
    solution                \* None, or Some(the Solution returned)

easyVars == <<reader, invalid_column_index, expected_column_count, line, out, done>>
tokVars  == <<fields, text, tokens>>
classVars == <<byte, class>>
colVars  == <<class_counts, outstanding, last_op>>
solVars  == <<raw, delimiter_byte, solution>>
vars     == <<easyVars, tokVars, classVars, colVars, solVars>>

Null == "null"

Min(a, b) == IF a < b THEN a ELSE b

(***************************************************************************)
(* Bounds of the model.                                                    *)
(***************************************************************************)
MaxFileLen  == 5    \* chars of the text behind the reader
MaxColumns  == 3    \* largest invalid_column_index / expected_column_count
MaxFields   == 2    \* fields in a row that is written out and read back
MaxFieldLen == 2    \* chars in such a field
MaxOutstanding == 4 \* bytes added to a column and not removed, with spans tracked
MaxColumnBytes == 7 \* bytes in a column whose score is taken
MaxRawLen   == 4    \* bytes in the buffer given to Solution::new

(***************************************************************************)
(* The delimiter and quote the callers in easy.rs's tests pass.            *)
(***************************************************************************)
Delimiter == ","
Quote     == "\""
Newline   == "\n"

\* sequences over S of length at most n
RECURSIVE SeqsUpTo(_, _)
SeqsUpTo(S, n) ==
    IF n = 0 THEN {<<>>}
    ELSE LET shorter == SeqsUpTo(S, n - 1)
         IN  shorter \cup {Append(s, c) : s \in {t \in shorter : Len(t) = n - 1}, c \in S}

(***************************************************************************)
(* std's BufRead::lines(): the text split at every "\n"; a final line      *)
(* without terminator is a line, a trailing "\n" opens no further line.    *)
(***************************************************************************)
RECURSIVE lines_from(_, _, _, _)
lines_from(buf, i, cur, acc) ==
    IF i > Len(buf)
      THEN IF cur = <<>> /\ (Len(buf) = 0 \/ buf[Len(buf)] = Newline)
             THEN acc
             ELSE Append(acc, cur)
      ELSE IF buf[i] = Newline
             THEN lines_from(buf, i + 1, <<>>, Append(acc, cur))
             ELSE lines_from(buf, i + 1, Append(cur, buf[i]), acc)

lines(buf) == lines_from(buf, 1, <<>>, <<>>)

(***************************************************************************)
(* fast_stream_valid_csv, the body of the closure for one line: the        *)
(* while-let loop over chars with one char of lookahead (peek).            *)
(***************************************************************************)
\* the loop without the lookahead: every quote toggles within_quotes
RECURSIVE tokenize_loop_no_peek(_, _, _, _, _, _, _)
tokenize_loop_no_peek(ln, i, row, current_field, within_quotes, delimiter, quote) ==
    IF i > Len(ln)
      THEN Append(row, current_field)
      ELSE LET ch == ln[i] IN
        IF ch = quote
          THEN tokenize_loop_no_peek(ln, i + 1, row, current_field,
                                     ~within_quotes, delimiter, quote)
          ELSE IF ch = delimiter /\ ~within_quotes
                 THEN tokenize_loop_no_peek(ln, i + 1, Append(row, current_field), <<>>,
                                            within_quotes, delimiter, quote)
                 ELSE tokenize_loop_no_peek(ln, i + 1, row, Append(current_field, ch),
                                            within_quotes, delimiter, quote)

RECURSIVE tokenize_loop(_, _, _, _, _, _, _)
tokenize_loop(ln, i, row, current_field, within_quotes, delimiter, quote) ==
    IF i > Len(ln)
      THEN Append(row, current_field)
      ELSE LET ch == ln[i] IN
        IF ch = quote
          THEN IF within_quotes /\ i + 1 <= Len(ln) /\ ln[i + 1] = quote
                 THEN tokenize_loop(ln, i + 2, row, Append(current_field, quote),
                                    within_quotes, delimiter, quote)
                 ELSE tokenize_loop(ln, i + 1, row, current_field,
                                    ~within_quotes, delimiter, quote)
          ELSE IF ch = delimiter /\ ~within_quotes
                 THEN tokenize_loop(ln, i + 1, Append(row, current_field), <<>>,
                                    within_quotes, delimiter, quote)
                 ELSE tokenize_loop(ln, i + 1, row, Append(current_field, ch),
                                    within_quotes, delimiter, quote)

\* io::Result<String>, one item of reader.lines()
OkLine(ln) == [tag |-> "Ok", line |-> ln]
IoError == [tag |-> "Err", kind |-> "io::Error"]

\* Result<Vec<String>> with its CsvError variants
Ok(row) == [tag |-> "Ok", row |-> row]
Io == [tag |-> "Err", kind |-> "Io"]
Invalid(l, c) == [tag |-> "Err", kind |-> "Invalid", line |-> l, column |-> c]

\* the closure of fast_stream_valid_csv: `line_result?` turns an I/O error
\* into CsvError::Io, a line is tokenized
fast_stream_valid_csv(line_result, delimiter, quote) ==
    IF line_result.tag = "Err" THEN Io
    ELSE Ok(tokenize_loop(line_result.line, 1, <<>>, <<>>, FALSE, delimiter, quote))

\* Iterator::take(n).collect() and what by_ref() leaves behind
take(s, n) == SubSeq(s, 1, Min(n, Len(s)))
rest(s, n) == SubSeq(s, Min(n, Len(s)) + 1, Len(s))

\* [String]::join(sep)
RECURSIVE join(_, _)
join(strs, sep) ==
    IF Len(strs) = 0 THEN <<>>
    ELSE IF Len(strs) = 1 THEN strs[1]
    ELSE strs[1] \o <<sep>> \o join(Tail(strs), sep)

\* repair_row with two slips: the merged span one field short, and the
\* error position counted from line 1
repair_row_slips(l, row_result, delimiter, index, expected) ==
    IF row_result.tag = "Err" THEN row_result
    ELSE
      LET row == row_result.row
          apparent_column_count == Len(row)
      IN  IF apparent_column_count < expected
            THEN Invalid(l + 1, expected)
          ELSE IF apparent_column_count > expected
            THEN LET new_row == take(row, index)
                     after_left == rest(row, index)
                     width == apparent_column_count - expected
                     invalid_column == join(take(after_left, width), delimiter)
                 IN  Ok(new_row \o <<invalid_column>> \o rest(after_left, width))
          ELSE Ok(row)

(***************************************************************************)
(* fast_stream_csv_with_unescaped_delimiters, the body of the closure for  *)
(* the pair (line, row_result).                                            *)
(***************************************************************************)
repair_row(l, row_result, delimiter, index, expected) ==
    IF row_result.tag = "Err" THEN row_result
    ELSE
      LET row == row_result.row
          apparent_column_count == Len(row)
      IN  IF apparent_column_count < expected
            THEN Invalid(l, expected)
          ELSE IF apparent_column_count > expected
            THEN LET new_row == take(row, index)
                     after_left == rest(row, index)
                     width == apparent_column_count - expected + 1
                     invalid_column == join(take(after_left, width), delimiter)
                 IN  Ok(new_row \o <<invalid_column>> \o rest(after_left, width))
          ELSE Ok(row)

fast_stream_csv_with_unescaped_delimiters(l, line_result, delimiter, quote, index, expected) ==
    repair_row(l, fast_stream_valid_csv(line_result, delimiter, quote),
               delimiter, index, expected)

(***************************************************************************)
(* Specification of the repairing iterator: a caller builds it over some   *)
(* text and calls next() until it returns None.                            *)
(***************************************************************************)
FileAlphabet == {"a", Delimiter, Quote, Newline}

TokIdle == fields = Null /\ text = Null /\ tokens = Null
ClassIdle == byte = 0 /\ class = Null
ColIdle == class_counts = Null /\ outstanding = Null /\ last_op = Null
SolIdle == raw = <<>> /\ delimiter_byte = 0 /\ solution = <<>>

\* what lines() yields for a text whose line number f (from 1) cannot be
\* read as UTF-8; f = 0: every line can
line_results(buf, f) ==
    LET ls == lines(buf)
    IN  [k \in 1..Len(ls) |-> IF k = f THEN IoError ELSE OkLine(ls[k])]

Init ==
    /\ reader \in {line_results(t, f) : t \in SeqsUpTo(FileAlphabet, MaxFileLen),
                                        f \in 0..MaxFileLen}
    /\ invalid_column_index \in 0..MaxColumns
    /\ expected_column_count \in 0..MaxColumns
    /\ line = 0
    /\ out = <<>>
    /\ done = FALSE
    /\ TokIdle /\ ClassIdle /\ ColIdle /\ SolIdle

\* an iterator that ends at the first Err it has yielded
more_lines_until_err ==
    /\ line < Len(reader)
    /\ \A k \in 1..Len(out) : out[k].tag = "Ok"

\* the lines() iterator under the two map adapters has another item
more_lines == line < Len(reader)

\* Iterator::next() returning Some(item)
IterNext ==
    /\ ~done
    /\ more_lines
    /\ out' = Append(out, fast_stream_csv_with_unescaped_delimiters(
                              line, reader[line + 1], Delimiter, Quote,
                              invalid_column_index, expected_column_count))
    /\ line' = line + 1
    /\ UNCHANGED <<reader, invalid_column_index, expected_column_count, done>>
    /\ UNCHANGED <<tokVars, classVars, colVars, solVars>>

\* Iterator::next() returning None
IterEnd ==
    /\ ~done
    /\ ~more_lines
    /\ done' = TRUE
    /\ UNCHANGED <<reader, invalid_column_index, expected_column_count, line, out>>
    /\ UNCHANGED <<tokVars, classVars, colVars, solVars>>

Next == IterNext \/ IterEnd

Spec == Init /\ [][Next]_vars

(***************************************************************************)
(* Specification of one line through the tokenizer: a row of fields is     *)
(* written out with consistent quoting and read back.                      *)
(***************************************************************************)
EasyIdle ==
    /\ reader = <<>>
    /\ invalid_column_index = 0
    /\ expected_column_count = 0
    /\ line = 0
    /\ out = <<>>
    /\ done = FALSE

FieldAlphabet == {"a", Delimiter, Quote}

\* the writer: each quote inside a field doubled, ...
RECURSIVE DoubleQuotes(_, _)
DoubleQuotes(f, quote) ==
    IF f = <<>> THEN <<>>
    ELSE (IF Head(f) = quote THEN <<quote, quote>> ELSE <<Head(f)>>)
            \o DoubleQuotes(Tail(f), quote)

\* ... each field wrapped in one quote on each side, fields joined by the delimiter
RECURSIVE Serialise(_, _, _)
Serialise(row, delimiter, quote) ==
    IF row = <<>> THEN <<>>
    ELSE <<quote>> \o DoubleQuotes(Head(row), quote) \o <<quote>>
            \o (IF Len(row) = 1 THEN <<>>
                ELSE <<delimiter>> \o Serialise(Tail(row), delimiter, quote))

InitTok ==
    /\ fields \in SeqsUpTo(SeqsUpTo(FieldAlphabet, MaxFieldLen), MaxFields) \ {<<>>}
    /\ text = Null
    /\ tokens = Null
    /\ EasyIdle /\ ClassIdle /\ ColIdle /\ SolIdle

WriteRow ==
    /\ text = Null
    /\ text' = Serialise(fields, Delimiter, Quote)
    /\ UNCHANGED <<fields, tokens, easyVars, classVars, colVars, solVars>>

ReadRow ==
    /\ text # Null
    /\ tokens = Null
    /\ tokens' = fast_stream_valid_csv(OkLine(text), Delimiter, Quote).row
    /\ UNCHANGED <<fields, text, easyVars, classVars, colVars, solVars>>

NextTok == WriteRow \/ ReadRow

SpecTok == InitTok /\ [][NextTok]_vars

(***************************************************************************)
(* medium.rs: the byte literals of CharacterClass::from_byte and           *)
(* Solution::new.                                                          *)
(***************************************************************************)
QuoteByte == 34     \* b'"'
CommaByte == 44     \* b','
TabByte   == 9      \* b'\t'
LineFeed  == 10     \* b'\n'
CarriageReturn == 13 \* b'\r'
MaxByte   == 255    \* u8

\* enum CharacterClass, in declaration order: `class as usize` is the
\* position in this sequence, counted from 0
CharacterClass ==
    <<"Digit", "Letter", "Punctuation", "Whitespace", "Quote",
      "Comma", "Tab", "Newline", "Other">>

as_usize(c) == CHOOSE i \in 0..(Len(CharacterClass) - 1) : CharacterClass[i + 1] = c

\* u8::is_ascii_digit, is_ascii_alphabetic, is_ascii_punctuation, is_ascii_whitespace
is_ascii_digit(b) == b \in 48..57
is_ascii_alphabetic(b) == b \in (65..90) \cup (97..122)
is_ascii_punctuation(b) == b \in (33..47) \cup (58..64) \cup (91..96) \cup (123..126)
is_ascii_whitespace(b) == b \in {32, 9, 10, 12, 13}

\* from_byte without the arm for b'\r'
from_byte_no_cr(b) ==
    IF b = QuoteByte THEN "Quote"
    ELSE IF b = CommaByte THEN "Comma"
    ELSE IF b = TabByte THEN "Tab"
    ELSE IF b = LineFeed THEN "Newline"
    ELSE IF is_ascii_digit(b) THEN "Digit"
    ELSE IF is_ascii_alphabetic(b) THEN "Letter"
    ELSE IF is_ascii_punctuation(b) THEN "Punctuation"
    ELSE IF is_ascii_whitespace(b) THEN "Whitespace"
    ELSE "Other"

\* CharacterClass::from_byte: the match arms in order
from_byte(b) ==
    IF b = QuoteByte THEN "Quote"
    ELSE IF b = CommaByte THEN "Comma"
    ELSE IF b = TabByte THEN "Tab"
    ELSE IF b = LineFeed THEN "Newline"
    ELSE IF b = CarriageReturn THEN "Newline"
    ELSE IF is_ascii_digit(b) THEN "Digit"
    ELSE IF is_ascii_alphabetic(b) THEN "Letter"
    ELSE IF is_ascii_punctuation(b) THEN "Punctuation"
    ELSE IF is_ascii_whitespace(b) THEN "Whitespace"
    ELSE IF b > 127 THEN "Other"
    ELSE "Other"

(***************************************************************************)
(* Specification of the classifier: a byte is classified while some        *)
(* delimiter is configured for the parse.                                  *)
(***************************************************************************)
\* delimiters a caller may configure: comma, semicolon, tab, pipe
DelimiterBytes == {CommaByte, 59, TabByte, 124}

InitClass ==
    /\ byte \in 0..MaxByte
    /\ delimiter_byte \in DelimiterBytes
    /\ class = Null
    /\ raw = <<>>
    /\ solution = <<>>
    /\ EasyIdle /\ TokIdle /\ ColIdle

Classify ==
    /\ class = Null
    /\ class' = from_byte(byte)
    /\ UNCHANGED <<byte, easyVars, tokVars, colVars, solVars>>

NextClass == Classify

SpecClass == InitClass /\ [][NextClass]_vars

(***************************************************************************)
(* ColumnComplexity.                                                       *)
(***************************************************************************)
Classes == 0..(Len(CharacterClass) - 1)

\* ColumnComplexity::default()
default_counts == [c \in Classes |-> 0]

\* add_bytes that counts every byte in the class of the first byte of the span
RECURSIVE add_bytes_first_class(_, _)
add_bytes_first_class(counts, bytes) ==
    IF bytes = <<>> THEN counts
    ELSE LET c == as_usize(from_byte(bytes[1]))
         IN  [counts EXCEPT ![c] = @ + Len(bytes)]

\* ColumnComplexity::add_bytes: for byte in bytes { class_counts[class] += 1 }
RECURSIVE add_bytes(_, _)
add_bytes(counts, bytes) ==
    IF bytes = <<>> THEN counts
    ELSE LET c == as_usize(from_byte(Head(bytes)))
         IN  add_bytes([counts EXCEPT ![c] = @ + 1], Tail(bytes))

\* ColumnComplexity::remove_bytes: for byte in bytes { class_counts[class] -= 1 }
\* (usize: the subtraction is only taken here on counts >= 1)
RECURSIVE remove_bytes(_, _)
remove_bytes(counts, bytes) ==
    IF bytes = <<>> THEN counts
    ELSE LET c == as_usize(from_byte(Head(bytes)))
         IN  remove_bytes([counts EXCEPT ![c] = @ - 1], Tail(bytes))

RECURSIVE SumOver(_, _)
SumOver(f, S) ==
    IF S = {} THEN 0
    ELSE LET x == CHOOSE y \in S : TRUE IN f[x] + SumOver(f, S \ {x})

\* gini_impurity that returns the sum of squares, not 1.0 minus it
gini_impurity_sum(counts) ==
    LET total == SumOver(counts, Classes)
        squares == SumOver([c \in Classes |-> counts[c] * counts[c]], Classes)
    IN  [nan |-> total = 0, num |-> squares, den |-> total * total]

\* ColumnComplexity::gini_impurity: 1.0 - sum of (count / total)^2, as the
\* exact fraction num / den; with total = 0 every p is 0.0 / 0.0, which is
\* NaN in f64, and so is the result.  Rounding of f64 is not modelled.
gini_impurity(counts) ==
    LET total == SumOver(counts, Classes)
        squares == SumOver([c \in Classes |-> counts[c] * counts[c]], Classes)
    IN  [nan |-> total = 0, num |-> total * total - squares, den |-> total * total]

\* f64 comparison of two scores: false whenever one of them is NaN
Greater(a, b) == ~a.nan /\ ~b.nan /\ a.num * b.den > b.num * a.den

(***************************************************************************)
(* Specification of a column's histogram under add_bytes / remove_bytes,   *)
(* where the caller removes only spans it added and has not yet removed.   *)
(***************************************************************************)
\* a letter, and the two bytes of class Newline
SpanBytes == {97, LineFeed, CarriageReturn}

Spans == SeqsUpTo(SpanBytes, MaxOutstanding) \ {<<>>}

\* the bag of spans added and not removed: span -> how many, over the spans
\* that are in it
EmptyBag == [sp \in {} |-> 0]

BagAdd(bag, sp) ==
    [x \in DOMAIN bag \cup {sp} |-> IF x = sp
                                     THEN (IF sp \in DOMAIN bag THEN bag[sp] + 1 ELSE 1)
                                     ELSE bag[x]]

BagRemove(bag, sp) ==
    IF bag[sp] > 1 THEN [bag EXCEPT ![sp] = @ - 1]
    ELSE [x \in DOMAIN bag \ {sp} |-> bag[x]]

OutstandingBytes(bag) == SumOver([sp \in DOMAIN bag |-> bag[sp] * Len(sp)], DOMAIN bag)

InitHist ==
    /\ class_counts = default_counts
    /\ outstanding = EmptyBag
    /\ last_op = Null
    /\ EasyIdle /\ TokIdle /\ ClassIdle /\ SolIdle

AddSpan ==
    \E sp \in Spans :
        /\ OutstandingBytes(outstanding) + Len(sp) <= MaxOutstanding
        /\ class_counts' = add_bytes(class_counts, sp)
        /\ outstanding' = BagAdd(outstanding, sp)
        /\ last_op' = <<"add_bytes", sp>>
        /\ UNCHANGED <<easyVars, tokVars, classVars, solVars>>

RemoveSpan ==
    \E sp \in DOMAIN outstanding :
        /\ outstanding[sp] >= 1
        /\ class_counts' = remove_bytes(class_counts, sp)
        /\ outstanding' = BagRemove(outstanding, sp)
        /\ last_op' = <<"remove_bytes", sp>>
        /\ UNCHANGED <<easyVars, tokVars, classVars, solVars>>

NextHist == AddSpan \/ RemoveSpan

SpecHist == InitHist /\ [][NextHist]_vars

(***************************************************************************)
(* Specification of a column's score: bytes are added to and removed from  *)
(* a column one at a time; one byte of every class is at hand, so a byte   *)
(* was added and not yet removed exactly when its class count is >= 1.     *)
(***************************************************************************)
\* '0', 'a', '!', ' ', '"', ',', tab, line feed, 0x80: one byte per class
OneOfEach == {48, 97, 33, 32, QuoteByte, CommaByte, TabByte, LineFeed, 128}

InitGini ==
    /\ class_counts = default_counts
    /\ outstanding = Null
    /\ last_op = Null
    /\ EasyIdle /\ TokIdle /\ ClassIdle /\ SolIdle

AddByte ==
    \E b \in OneOfEach :
        /\ SumOver(class_counts, Classes) < MaxColumnBytes
        /\ class_counts' = add_bytes(class_counts, <<b>>)
        /\ last_op' = <<"add_bytes", <<b>>>>
        /\ UNCHANGED <<outstanding, easyVars, tokVars, classVars, solVars>>

RemoveByte ==
    \E b \in OneOfEach :
        /\ class_counts[as_usize(from_byte(b))] >= 1
        /\ class_counts' = remove_bytes(class_counts, <<b>>)
        /\ last_op' = <<"remove_bytes", <<b>>>>
        /\ UNCHANGED <<outstanding, easyVars, tokVars, classVars, solVars>>

NextGini == AddByte \/ RemoveByte

SpecGini == InitGini /\ [][NextGini]_vars

(***************************************************************************)
(* Solution.  Offsets and candidate numbers count from 0 as in the source; *)
(* a Mask is a sequence of booleans whose element k + 1 is bit k.          *)
(***************************************************************************)
\* Option<usize>: None and Some(x)
None == <<>>
Some(x) == <<x>>

\* raw[i]
at(buf, i) == buf[i + 1]

\* raw[i..].starts_with(b"\r\n")
starts_with_crlf(buf, i) ==
    /\ Len(buf) - i >= 2
    /\ at(buf, i) = CarriageReturn
    /\ at(buf, i + 1) = LineFeed

\* the loop of Solution::new over raw.iter().enumerate()
RECURSIVE scan(_, _, _, _, _)
scan(buf, delimiter, i, delimiter_locations, quote_locations) ==
    IF i >= Len(buf)
      THEN [delimiter_locations |-> delimiter_locations,
            quote_locations |-> quote_locations]
      ELSE LET b == at(buf, i) IN
        IF b = LineFeed
          THEN scan(buf, delimiter, i + 1, Append(delimiter_locations, i), quote_locations)
        ELSE IF b = QuoteByte
          THEN IF \/ i = 0
                  \/ at(buf, i - 1) = delimiter
                  \/ at(buf, i - 1) = LineFeed
                  \/ starts_with_crlf(buf, i - 1)
                  \/ i = Len(buf) - 1
                 THEN scan(buf, delimiter, i + 1, delimiter_locations,
                           Append(quote_locations, i))
                 ELSE scan(buf, delimiter, i + 1, delimiter_locations, quote_locations)
        ELSE IF b = delimiter
          THEN scan(buf, delimiter, i + 1, Append(delimiter_locations, i), quote_locations)
        ELSE scan(buf, delimiter, i + 1, delimiter_locations, quote_locations)

\* Solution has no field quote_valid, which Solution::new clones into
\* quote_can_start and quote_can_end: it is taken to be the mask with one bit
\* per quote candidate, every candidate treated as structural.
quote_valid(quote_locations) == [k \in 1..Len(quote_locations) |-> TRUE]

\* slice.binary_search(&x).is_ok() on an ascending slice
binary_search_is_ok(locations, x) == \E k \in 1..Len(locations) : locations[k] = x

\* BitSlice::first_one / last_one, as candidate numbers
first_one(mask) ==
    IF \E k \in 1..Len(mask) : mask[k]
      THEN Some((CHOOSE k \in 1..Len(mask) : mask[k] /\ \A j \in 1..(k - 1) : ~mask[j]) - 1)
      ELSE None

last_one(mask) ==
    IF \E k \in 1..Len(mask) : mask[k]
      THEN Some((CHOOSE k \in 1..Len(mask) : mask[k] /\ \A j \in (k + 1)..Len(mask) : ~mask[j]) - 1)
      ELSE None

unwrap_or(opt, dflt) == IF opt = None THEN dflt ELSE opt[1]

\* default_heuristics, the first loop: per quote candidate
per_quote_rules(this) ==
    LET prev(q) == q = 0 \/ binary_search_is_ok(this.delimiter_locations, q - 1)
        next(q) == \/ q = this.file_length - 1
                   \/ binary_search_is_ok(this.delimiter_locations, q + 1)
    IN  [this EXCEPT
           !.quote_can_start = [k \in 1..Len(@) |->
                                   IF prev(this.quote_locations[k]) THEN FALSE ELSE @[k]],
           !.quote_can_end = [k \in 1..Len(@) |->
                                   IF next(this.quote_locations[k]) THEN FALSE ELSE @[k]]]

\* default_heuristics, the second loop: quote_can_end[..first_one().unwrap_or(0)]
clear_ends_before_first_start(this) ==
    LET upto == unwrap_or(first_one(this.quote_can_start), 0)
    IN  [this EXCEPT !.quote_can_end = [k \in 1..Len(@) |->
                                           IF k - 1 < upto THEN FALSE ELSE @[k]]]

\* default_heuristics, the third loop: quote_can_start[last_one().unwrap_or(0)..]
clear_starts_after_last_end(this) ==
    LET from == unwrap_or(last_one(this.quote_can_end), 0)
    IN  [this EXCEPT !.quote_can_start = [k \in 1..Len(@) |->
                                             IF k - 1 >= from THEN FALSE ELSE @[k]]]

default_heuristics(this) ==
    clear_starts_after_last_end(clear_ends_before_first_start(per_quote_rules(this)))

\* Solution::new up to the call of default_heuristics
scanned_solution(buf, delimiter) ==
    LET found == scan(buf, delimiter, 0, <<>>, <<>>)
    IN  [delimiter |-> delimiter,
         column_count |-> None,
         column_complexities |-> <<>>,
         file_length |-> Len(buf),
         delimiter_locations |-> found.delimiter_locations,
         quote_locations |-> found.quote_locations,
         quote_can_start |-> quote_valid(found.quote_locations),
         quote_can_end |-> quote_valid(found.quote_locations)]

Solution_new(buf, delimiter) == default_heuristics(scanned_solution(buf, delimiter))

(***************************************************************************)
(* Specification of Solution::new on some buffer and delimiter.            *)
(***************************************************************************)
\* quote, comma, semicolon, line feed, carriage return, a letter
RawAlphabet == {QuoteByte, CommaByte, 59, LineFeed, CarriageReturn, 97}

InitSol ==
    /\ raw \in SeqsUpTo(RawAlphabet, MaxRawLen)
    /\ delimiter_byte \in {CommaByte, 59}
    /\ solution = None
    /\ EasyIdle /\ TokIdle /\ ClassIdle /\ ColIdle

New ==
    /\ solution = None
    /\ solution' = Some(Solution_new(raw, delimiter_byte))
    /\ UNCHANGED <<raw, delimiter_byte, easyVars, tokVars, classVars, colVars>>

NextSol == New

SpecSol == InitSol /\ [][NextSol]_vars

(***************************************************************************)
(* Properties of the repairing iterator (Spec).                            *)
(***************************************************************************)
\* the k-th line of the reader was read, and the row the tokenizer makes of it
Tokenizes(k) == reader[k].tag = "Ok"
RowOfLine(k) == tokenize_loop(reader[k].line, 1, <<>>, <<>>, FALSE, Delimiter, Quote)

\* fields i..j of a row, written one after the other with d between them
Between(row, i, j, d) ==
    LET RECURSIVE upto(_)
        upto(m) == IF m = i THEN row[i] ELSE upto(m - 1) \o <<d>> \o row[m]
    IN  upto(j)

\* item is Ok(row) where row is t with the fields index+1 .. index+extra+1
\* merged into one and all other fields kept in place
MergedAt(item, t, index, expected) ==
    LET extra == Len(t) - expected IN
    /\ item.tag = "Ok"
    /\ Len(item.row) = expected
    /\ \A j \in 1..index : item.row[j] = t[j]
    /\ item.row[index + 1] = Between(t, index + 1, index + extra + 1, Delimiter)
    /\ \A j \in (index + 2)..expected : item.row[j] = t[j + extra]

\* C1 as stated: for every line with more fields than expected_column_count,
\* whatever invalid_column_index and expected_column_count >= 1 the caller
\* passes, the item is Ok(row) with exactly expected_column_count fields: the
\* first invalid_column_index fields, the merged field, the remaining fields.
C1_AnyIndex ==
    \A k \in 1..Len(out) :
        (/\ Tokenizes(k)
         /\ Len(RowOfLine(k)) > expected_column_count
         /\ expected_column_count >= 1)
            => MergedAt(out[k], RowOfLine(k), invalid_column_index, expected_column_count)

\* C1 amended: the same for every invalid_column_index < expected_column_count.
C1_IndexInRange ==
    \A k \in 1..Len(out) :
        (/\ Tokenizes(k)
         /\ Len(RowOfLine(k)) > expected_column_count
         /\ invalid_column_index < expected_column_count)
            => MergedAt(out[k], RowOfLine(k), invalid_column_index, expected_column_count)

\* a repaired row with a field kept on the left and one kept on the right
C1_Witness ==
    \E k \in 1..Len(out) :
        /\ Tokenizes(k)
        /\ Len(RowOfLine(k)) > expected_column_count
        /\ invalid_column_index >= 1
        /\ invalid_column_index + 1 < expected_column_count
        /\ out[k].tag = "Ok"

\* C2: every line with strictly fewer fields than expected_column_count yields
\* Err(Invalid) with Position.line the zero-based index of the line and
\* Position.column equal to expected_column_count.
C2_TooFewIsInvalid ==
    \A k \in 1..Len(out) :
        (Tokenizes(k) /\ Len(RowOfLine(k)) < expected_column_count)
            => /\ out[k].tag = "Err"
               /\ out[k].kind = "Invalid"
               /\ out[k].line = k - 1
               /\ out[k].column = expected_column_count

\* the third line (index 2) is short, after two good ones
C2_Witness ==
    /\ Len(out) >= 3
    /\ out[1].tag = "Ok" /\ out[2].tag = "Ok"
    /\ Tokenizes(3)
    /\ Len(RowOfLine(3)) < expected_column_count
    /\ out[3].tag = "Err"

\* what line k alone, with its index, makes the k-th item
ItemOfLine(k, item) ==
    IF ~Tokenizes(k) THEN item = Io
    ELSE LET n == Len(RowOfLine(k)) IN
         /\ (item.tag = "Err") = (n < expected_column_count)
         /\ item.tag = "Err" => (item.kind = "Invalid" /\ item.line = k - 1)
         /\ (item.tag = "Ok" /\ n = expected_column_count) => item.row = RowOfLine(k)
         /\ (item.tag = "Ok" /\ n > expected_column_count) =>
               item = repair_row(0, Ok(RowOfLine(k)), Delimiter,
                                 invalid_column_index, expected_column_count)

\* C3: the iterator yields one item per line, in line order; the item of line
\* k depends on that line and on k alone, so an Err changes neither the items
\* before it nor those after it; and next() returns None only when every
\* line has had its item, whatever Errs were yielded.
C3_OneItemPerLine ==
    /\ Len(out) = line
    /\ line <= Len(reader)
    /\ \A k \in 1..Len(out) : ItemOfLine(k, out[k])
    /\ done => Len(out) = Len(reader)

\* an Err between two Ok rows, and next() has returned None after them
C3_Witness ==
    /\ done
    /\ \E k \in 2..(Len(out) - 1) :
          out[k].tag = "Err" /\ out[k - 1].tag = "Ok" /\ out[k + 1].tag = "Ok"

(***************************************************************************)
(* Properties of the tokenizer (SpecTok).                                  *)
(***************************************************************************)
\* C4: a row written with consistent quoting reads back as the same fields;
\* a doubled quote reads back as one quote and a delimiter inside quotes
\* does not split the field.  (A line always holds at least one field.)
C4_RoundTrip == tokens # Null => tokens = fields

C4_Witness ==
    /\ tokens # Null
    /\ Len(fields) >= 2
    /\ \E i \in 1..Len(fields) : \E j \in 1..Len(fields[i]) : fields[i][j] = Quote
    /\ \E i \in 1..Len(fields) : \E j \in 1..Len(fields[i]) : fields[i][j] = Delimiter

(***************************************************************************)
(* Properties of the classifier (SpecClass).                               *)
(***************************************************************************)
Classified == class # Null

IsOneClass(c) == Cardinality({i \in 1..Len(CharacterClass) : CharacterClass[i] = c}) = 1

\* C5 as stated: every byte gets exactly one class; the class is the
\* delimiter class (Comma) when the byte is the configured delimiter and
\* never when it is another byte; carriage return and line feed are Newline.
C5_DelimiterConfigured ==
    Classified =>
        /\ IsOneClass(class)
        /\ (byte = delimiter_byte) => class = "Comma"
        /\ (byte # delimiter_byte) => class # "Comma"
        /\ (byte \in {CarriageReturn, LineFeed}) => class = "Newline"

\* C5 amended: every byte gets exactly one class, which depends on the byte
\* alone; the class is Comma exactly when the byte is b',', whatever
\* delimiter is configured; carriage return and line feed are Newline.
C5_CommaOnly ==
    Classified =>
        /\ IsOneClass(class)
        /\ (class = "Comma") = (byte = CommaByte)
        /\ (byte \in {CarriageReturn, LineFeed}) => class = "Newline"

\* the configured delimiter is not the comma, and the byte classified is it
C5_Witness ==
    /\ Classified
    /\ delimiter_byte # CommaByte
    /\ byte = delimiter_byte

(***************************************************************************)
(* Properties of the histogram (SpecHist).                                 *)
(***************************************************************************)
\* how many bytes of class c the spans of the bag hold
BytesOfClass(bag, c) ==
    SumOver([sp \in DOMAIN bag |->
                bag[sp] * Cardinality({i \in 1..Len(sp) : as_usize(from_byte(sp[i])) = c})],
            DOMAIN bag)

\* C6: while only spans added and not yet removed are removed, every class
\* count is the number of bytes of that class added minus the number removed,
\* no count is negative, and the counts sum to the bytes added minus the
\* bytes removed; so remove_bytes(s) after add_bytes(s) restores the histogram.
C6_CountsAreAddedMinusRemoved ==
    /\ \A c \in Classes :
          /\ class_counts[c] = BytesOfClass(outstanding, c)
          /\ class_counts[c] >= 0
    /\ SumOver(class_counts, Classes) = OutstandingBytes(outstanding)

\* a span of two classes has just been removed while another span stays
C6_Witness ==
    /\ last_op # Null
    /\ last_op[1] = "remove_bytes"
    /\ \E i, j \in 1..Len(last_op[2]) : from_byte(last_op[2][i]) # from_byte(last_op[2][j])
    /\ outstanding # EmptyBag

(***************************************************************************)
(* Properties of the score (SpecGini).                                     *)
(***************************************************************************)
JustAdded == last_op # Null /\ last_op[1] = "add_bytes"

\* the class of the byte added last, and the histogram before it was added
AddedClass == as_usize(from_byte(last_op[2][1]))
Before == [class_counts EXCEPT ![AddedClass] = @ - 1]

IsMaximum(counts, c) == \A d \in Classes : counts[d] <= counts[c]

\* C7 as stated: adding one byte of a class whose count is the maximum does
\* not increase the score; adding one byte of any other class (a class with
\* count 0 included) does not decrease it.
C7_MinorityNeverDecreases ==
    JustAdded =>
        /\ IsMaximum(Before, AddedClass)
              => ~Greater(gini_impurity(class_counts), gini_impurity(Before))
        /\ ~IsMaximum(Before, AddedClass)
              => ~Greater(gini_impurity(Before), gini_impurity(class_counts))

\* C7 amended: adding one byte of a class whose count is the maximum does not
\* increase the score; adding one byte of a class the column does not hold yet
\* (count 0) does not decrease it.  (The empty column's score is NaN, which
\* compares neither greater nor less.)
C7_DominantAndNew ==
    JustAdded =>
        /\ IsMaximum(Before, AddedClass)
              => ~Greater(gini_impurity(class_counts), gini_impurity(Before))
        /\ Before[AddedClass] = 0
              => ~Greater(gini_impurity(Before), gini_impurity(class_counts))

\* a byte of the dominant class was added to a mixed column and the score
\* went down
C7_Witness ==
    /\ JustAdded
    /\ IsMaximum(Before, AddedClass)
    /\ \E d \in Classes : d # AddedClass /\ Before[d] >= 1
    /\ Greater(gini_impurity(Before), gini_impurity(class_counts))

\* an even mix: at least two classes hold bytes and all that do hold equally many
EvenlyMixed(counts) ==
    LET held == {c \in Classes : counts[c] > 0}
    IN  Cardinality(held) >= 2 /\ \A c, d \in held : counts[c] = counts[d]

\* C8 as stated: for every column add_bytes / remove_bytes can reach, the
\* freshly created one included, the score is a defined value in [0, 1]; it is
\* 0 when all bytes are of one class and 1 for an even distribution.
C8_DefinedAndReachesOne ==
    LET g == gini_impurity(class_counts) IN
    /\ ~g.nan
    /\ 0 <= g.num /\ g.num <= g.den
    /\ (\E c \in Classes : class_counts[c] = SumOver(class_counts, Classes)) => g.num = 0
    /\ EvenlyMixed(class_counts) => g.num = g.den

(***************************************************************************)
(* Properties of Solution::new (SpecSol).                                  *)
(***************************************************************************)
Ascending(locations) ==
    \A j, k \in 1..Len(locations) : j < k => locations[j] < locations[k]

\* a delimiter or a row terminator, for the configured delimiter
IsSeparator(b) == b = delimiter_byte \/ b = LineFeed \/ b = CarriageReturn

\* C9 as stated: candidates are recorded in ascending order; a quote byte at
\* offset i is recorded exactly when the byte before it is a delimiter, a row
\* terminator or absent, or the byte after it is; every delimiter offset and
\* every row terminator offset (carriage return as well as line feed) is recorded.
C9_FilterBothWays ==
    solution # None =>
        LET this == solution[1]
            n == Len(raw)
        IN  /\ Ascending(this.quote_locations)
            /\ Ascending(this.delimiter_locations)
            /\ \A i \in 0..(n - 1) :
                  at(raw, i) = QuoteByte =>
                     (binary_search_is_ok(this.quote_locations, i)
                        = (\/ i = 0
                           \/ IsSeparator(at(raw, i - 1))
                           \/ i = n - 1
                           \/ IsSeparator(at(raw, i + 1))))
            /\ \A i \in 0..(n - 1) :
                  (at(raw, i) # QuoteByte /\ IsSeparator(at(raw, i)))
                     => binary_search_is_ok(this.delimiter_locations, i)

Bits(mask) == {k \in 0..(Len(mask) - 1) : mask[k + 1]}

\* C10 as stated: in the final bitsets no can-close bit is set below the first
\* can-open bit and no can-open bit is set above the last can-close bit; a
\* can-open bit that is not above the last can-close bit is kept; and when the
\* per-quote rules leave no can-open (no can-close) bit, no can-close
\* (can-open) bit is left.
C10_NoDanglingQuotes ==
    solution # None =>
        LET this == solution[1]
            mid == per_quote_rules(scanned_solution(raw, delimiter_byte))
            starts == Bits(this.quote_can_start)
            ends == Bits(this.quote_can_end)
            starts0 == Bits(mid.quote_can_start)
            ends0 == Bits(mid.quote_can_end)
        IN  /\ \A e \in ends : \A s \in starts : (\A t \in starts : s <= t) => s <= e
            /\ \A s \in starts : \A e \in ends : (\A t \in ends : t <= e) => s <= e
            /\ \A s \in starts0 : (\E e \in ends : s <= e) => s \in starts
            /\ starts0 = {} => ends = {}
            /\ ends0 = {} => starts = {}

=============================================================================
